---- MODULE Spec2Model ----
(***************************************************************************)
(* The calculator of src/src/Calculator.tsx as a state machine.  The state *)
(* is the CalculatorState record held by useState; every useCallback       *)
(* handler is one action, its functional update applied atomically.        *)
(*                                                                         *)
(* JavaScript strings are sequences of one-character strings.  JavaScript  *)
(* numbers are decimal floating-point records [t, m, e]: t = "num" stands  *)
(* for m * 10^e (m not divisible by 10, or m = 0 and e = 0), and t = "nan",*)
(* "inf", "ninf" for NaN, Infinity and -Infinity.  Decimal arithmetic is   *)
(* exact in the model; the binary rounding of the last digit of a double   *)
(* is not modelled, and the guards keep mantissas small.  A character      *)
(* outside ASCII is written by name: "<pi>" is the one character U+03C0,   *)
(* "<minus>" U+2212, "<times>" U+00D7, "<divide>" U+00F7, "<root>" U+221A, *)
(* "<sup->", "<sup1>", "<sup2>", "<sup3>", "<supx>" the superscripts       *)
(* U+207B, U+00B9, U+00B2, U+00B3, U+02E3.                                 *)
(***************************************************************************)
EXTENDS Integers, Sequences, FiniteSets, TLC

VARIABLES display, expression, memory, angleMode, previousAnswer,
          waitingForOperand, hasError, lastEvent, evalCall

vars == <<display, expression, memory, angleMode, previousAnswer,
          waitingForOperand, hasError, lastEvent, evalCall>>

state == <<display, expression, memory, angleMode, previousAnswer,
           waitingForOperand, hasError>>

(***************************************************************************)
(* Bounds of the model.                                                    *)
(***************************************************************************)
\* an append is taken only if expression stays this short
MaxExpr == 1
\* display is edited only if it stays this short
MaxDisplay == 5
\* the arithmetic of the model: |mantissa| <= MaxMant, |exponent| <= MaxExp
MaxMant == 99
MaxExp == 2
\* memory is kept to integers of magnitude <= MaxMem (and NaN)
MaxMem == 1
\* previousAnswer to integers of magnitude <= MaxAnswer (and NaN, Infinity,
\* pi, e, 1e-7)
MaxAnswer == 1

(***************************************************************************)
(* Strings.                                                                *)
(***************************************************************************)
DigitChars == {"0", "1", "2", "3", "4", "5", "6", "7", "8", "9"}

DigitVal(c) ==
  CASE c = "0" -> 0 [] c = "1" -> 1 [] c = "2" -> 2 [] c = "3" -> 3
    [] c = "4" -> 4 [] c = "5" -> 5 [] c = "6" -> 6 [] c = "7" -> 7
    [] c = "8" -> 8 [] c = "9" -> 9

DigitChar(d) ==
  CASE d = 0 -> "0" [] d = 1 -> "1" [] d = 2 -> "2" [] d = 3 -> "3"
    [] d = 4 -> "4" [] d = 5 -> "5" [] d = 6 -> "6" [] d = 7 -> "7"
    [] d = 8 -> "8" [] d = 9 -> "9"

\* String.prototype.includes / indexOf(c) !== -1 for a one-character needle
Includes(s, c) == \E i \in 1..Len(s) : s[i] = c

\* the number of occurrences of character c in s
Count(s, c) == Cardinality({i \in 1..Len(s) : s[i] = c})

\* String.prototype.startsWith
StartsWith(s, p) == Len(s) >= Len(p) /\ SubSeq(s, 1, Len(p)) = p

\* s.slice(1)
Slice1(s) == IF Len(s) = 0 THEN s ELSE SubSeq(s, 2, Len(s))

\* s.slice(0, -1)
SliceLast(s) == IF Len(s) = 0 THEN s ELSE SubSeq(s, 1, Len(s) - 1)

\* s.slice(i) for a 1-based position i
From(s, i) == SubSeq(s, i, Len(s))

\* the longest prefix of s made of decimal digits
RECURSIVE DigitRun(_)
DigitRun(s) ==
  IF Len(s) > 0 /\ s[1] \in DigitChars
    THEN <<s[1]>> \o DigitRun(Slice1(s))
    ELSE <<>>

(***************************************************************************)
(* Numbers.                                                                *)
(***************************************************************************)
NaN == [t |-> "nan", m |-> 0, e |-> 0]
Infinity == [t |-> "inf", m |-> 0, e |-> 0]
NegInfinity == [t |-> "ninf", m |-> 0, e |-> 0]
\* the doubles Math.PI and Math.E, which mathjs exports as pi and e
Pi == [t |-> "pi", m |-> 0, e |-> 0]
Euler == [t |-> "e", m |-> 0, e |-> 0]
\* a finite double outside the range the model computes with
Other == [t |-> "other", m |-> 0, e |-> 0]

Abs(i) == IF i < 0 THEN 0 - i ELSE i

RECURSIVE Pow10(_)
Pow10(k) == IF k <= 0 THEN 1 ELSE 10 * Pow10(k - 1)

\* the number m * 10^e in normal form
RECURSIVE Norm(_, _)
Norm(m, e) ==
  IF m = 0 THEN [t |-> "num", m |-> 0, e |-> 0]
  ELSE IF m % 10 = 0 THEN Norm(m \div 10, e + 1)
  ELSE [t |-> "num", m |-> m, e |-> e]

\* the numbers the model computes with: small mantissa, small exponent
Small(a) == a.t /= "num" \/ (Abs(a.m) <= MaxMant /\ Abs(a.e) <= MaxExp)

Num(m, e) == LET a == Norm(m, e) IN IF Small(a) THEN a ELSE Other

Zero == Num(0, 0)

\* the decimal digits of a non-negative integer, as characters
RECURSIVE Digits(_)
Digits(i) ==
  IF i < 10 THEN <<DigitChar(i)>> ELSE Digits(i \div 10) \o <<DigitChar(i % 10)>>

\* the integer a digit string denotes
RECURSIVE IntOf(_)
IntOf(s) ==
  IF Len(s) = 0 THEN 0 ELSE 10 * IntOf(SliceLast(s)) + DigitVal(s[Len(s)])

RECURSIVE Zeros(_)
Zeros(k) == IF k <= 0 THEN <<>> ELSE <<"0">> \o Zeros(k - 1)

\* s without its leading zeros
RECURSIVE StripZeros(_)
StripZeros(s) ==
  IF Len(s) > 0 /\ s[1] = "0" THEN StripZeros(Slice1(s)) ELSE s

Neg(a) ==
  CASE a.t = "num" -> Num(0 - a.m, a.e)
    [] a.t = "inf" -> NegInfinity
    [] a.t = "ninf" -> Infinity
    [] a.t = "nan" -> NaN
    [] OTHER -> Other

Sign(a) ==
  CASE a.t = "inf" -> 1
    [] a.t = "ninf" -> 0 - 1
    [] a.t = "num" -> IF a.m > 0 THEN 1 ELSE IF a.m < 0 THEN 0 - 1 ELSE 0
    [] a.t \in {"pi", "e"} -> 1
    [] OTHER -> 0

\* a finite double the model does not compute with
Unrepresented(a) == a.t \in {"pi", "e", "other"} \/ ~Small(a)

\* a + b of JavaScript numbers
Add(a, b) ==
  CASE a.t = "nan" \/ b.t = "nan" -> NaN
    [] a = Zero -> b
    [] b = Zero -> a
    [] Unrepresented(a) /\ b.t \in {"inf", "ninf"} -> b
    [] Unrepresented(b) /\ a.t \in {"inf", "ninf"} -> a
    [] Unrepresented(a) \/ Unrepresented(b) -> Other
    [] a.t = "inf" -> IF b.t = "ninf" THEN NaN ELSE Infinity
    [] a.t = "ninf" -> IF b.t = "inf" THEN NaN ELSE NegInfinity
    [] b.t = "inf" -> Infinity
    [] b.t = "ninf" -> NegInfinity
    [] OTHER ->
         LET lo == IF a.e < b.e THEN a.e ELSE b.e
         IN  Num(a.m * Pow10(a.e - lo) + b.m * Pow10(b.e - lo), lo)

\* a - b
Sub(a, b) == Add(a, Neg(b))

\* a * b
Mul(a, b) ==
  CASE a.t = "nan" \/ b.t = "nan" -> NaN
    [] a = Num(1, 0) -> b
    [] b = Num(1, 0) -> a
    [] a.t = "other" \/ b.t = "other" -> Other
    [] Unrepresented(a) /\ Unrepresented(b) -> Other
    [] Unrepresented(a) /\ b.t = "num" -> IF b.m = 0 THEN Zero ELSE Other
    [] Unrepresented(b) /\ a.t = "num" -> IF a.m = 0 THEN Zero ELSE Other
    [] a.t = "num" /\ b.t = "num" -> Num(a.m * b.m, a.e + b.e)
    [] Sign(a) * Sign(b) > 0 -> Infinity
    [] Sign(a) * Sign(b) < 0 -> NegInfinity
    [] OTHER -> NaN

\* the least j in from..MaxExp + MaxExp with n * 10^j divisible by d, or -1
RECURSIVE ExactAt(_, _, _)
ExactAt(n, d, j) ==
  IF j > MaxExp + MaxExp THEN 0 - 1
  ELSE IF (n * Pow10(j)) % d = 0 THEN j
  ELSE ExactAt(n, d, j + 1)

\* a / b
Div(a, b) ==
  CASE a.t = "nan" \/ b.t = "nan" -> NaN
    [] b = Num(1, 0) -> a
    [] a.t = "other" \/ b.t = "other" -> Other
    [] Unrepresented(a) /\ Unrepresented(b) -> IF a = b THEN Num(1, 0) ELSE Other
    [] Unrepresented(a) /\ b.t = "num" ->
         IF b.m = 0 THEN Infinity ELSE Other
    [] Unrepresented(a) -> Zero
    [] Unrepresented(b) /\ a.t = "num" -> IF a.m = 0 THEN Zero ELSE Other
    [] Unrepresented(b) -> a
    [] a.t = "num" /\ b.t = "num" ->
         IF b.m = 0
           THEN IF a.m = 0 THEN NaN
                ELSE IF a.m > 0 THEN Infinity ELSE NegInfinity
           ELSE LET d == Abs(b.m)
                    n == IF b.m < 0 THEN 0 - a.m ELSE a.m
                    j == ExactAt(Abs(n), d, 0)
                IN  IF j < 0 THEN Other
                    ELSE Num((n * Pow10(j)) \div d, a.e - b.e - j)
    [] a.t = "num" -> Num(0, 0)
    [] b.t = "num" ->
         IF Sign(a) * (IF b.m < 0 THEN 0 - 1 ELSE 1) > 0
           THEN Infinity ELSE NegInfinity
    [] OTHER -> NaN

(***************************************************************************)
(* Number <-> string conversions of JavaScript.                            *)
(***************************************************************************)
NaNStr == <<"N", "a", "N">>
\* pi.toString() and e.toString()
PiStr == <<"3", ".", "1", "4", "1", "5", "9", "2", "6", "5", "3", "5", "8",
           "9", "7", "9", "3">>
EulerStr == <<"2", ".", "7", "1", "8", "2", "8", "1", "8", "2", "8", "4", "5",
              "9", "0", "4", "5">>
InfinityStr == <<"I", "n", "f", "i", "n", "i", "t", "y">>

\* "e+x" / "e-x": the exponent part of toString and toExponential
ExpPart(x) == <<"e", IF x < 0 THEN "-" ELSE "+">> \o Digits(Abs(x))

\* Number.prototype.toString() (ECMAScript Number::toString, radix 10)
NumberToString(a) ==
  CASE a.t = "nan" -> NaNStr
    [] a.t = "inf" -> InfinityStr
    [] a.t = "ninf" -> <<"-">> \o InfinityStr
    [] a.t = "pi" -> PiStr
    [] a.t = "e" -> EulerStr
    [] a.t = "num" /\ a.m = 0 -> <<"0">>
    [] a.t = "num" /\ a.m /= 0 ->
         LET s == Digits(Abs(a.m))
             k == Len(s)
             n == k + a.e
             body ==
               IF k <= n /\ n <= 21 THEN s \o Zeros(n - k)
               ELSE IF 0 < n /\ n <= 21
                 THEN SubSeq(s, 1, n) \o <<".">> \o SubSeq(s, n + 1, k)
               ELSE IF 0 - 6 < n /\ n <= 0
                 THEN <<"0", ".">> \o Zeros(0 - n) \o s
               ELSE IF k = 1 THEN s \o ExpPart(n - 1)
               ELSE <<s[1], ".">> \o SubSeq(s, 2, k) \o ExpPart(n - 1)
         IN  (IF a.m < 0 THEN <<"-">> ELSE <<>>) \o body

\* Number.prototype.toExponential(6)
ToExponential6(a) ==
  CASE a.t = "nan" -> NaNStr
    [] a.t = "inf" -> InfinityStr
    [] a.t = "ninf" -> <<"-">> \o InfinityStr
    [] a.t = "pi" -> <<"3", ".", "1", "4", "1", "5", "9", "3", "e", "+", "0">>
    [] a.t = "e" -> <<"2", ".", "7", "1", "8", "2", "8", "2", "e", "+", "0">>
    [] a.t = "num" /\ a.m = 0 ->
         <<"0", ".", "0", "0", "0", "0", "0", "0", "e", "+", "0">>
    [] a.t = "num" /\ a.m /= 0 ->
         LET s == Digits(Abs(a.m))
             k == Len(s)
             \* seven significant digits, rounded half up
             head == IF k <= 7 THEN IntOf(s) * Pow10(7 - k)
                     ELSE IntOf(SubSeq(s, 1, 7))
                          + (IF DigitVal(s[8]) >= 5 THEN 1 ELSE 0)
             carry == head >= Pow10(7)
             d == Digits(IF carry THEN head \div 10 ELSE head)
             x == k + a.e - 1 + (IF carry THEN 1 ELSE 0)
         IN  (IF a.m < 0 THEN <<"-">> ELSE <<>>)
             \o <<d[1], ".">> \o SubSeq(d, 2, 7) \o ExpPart(x)

\* Number.prototype.toPrecision(10), for the numbers of the model (their
\* mantissas have fewer than ten digits, so nothing is rounded away)
ToPrecision10(a) ==
  CASE a.t = "nan" -> NaNStr
    [] a.t = "inf" -> InfinityStr
    [] a.t = "ninf" -> <<"-">> \o InfinityStr
    [] a.t = "pi" -> <<"3", ".", "1", "4", "1", "5", "9", "2", "6", "5", "4">>
    [] a.t = "e" -> <<"2", ".", "7", "1", "8", "2", "8", "1", "8", "2", "8">>
    [] a.t = "num" /\ a.m = 0 -> <<"0", ".">> \o Zeros(9)
    [] a.t = "num" /\ a.m /= 0 ->
         LET s == Digits(Abs(a.m))
             k == Len(s)
             d == s \o Zeros(10 - k)
             x == k + a.e - 1
             body ==
               IF x < 0 - 6 \/ x >= 10
                 THEN <<d[1], ".">> \o SubSeq(d, 2, 10) \o ExpPart(x)
               ELSE IF x = 9 THEN d
               ELSE IF x >= 0
                 THEN SubSeq(d, 1, x + 1) \o <<".">> \o SubSeq(d, x + 2, 10)
               ELSE <<"0", ".">> \o Zeros(0 - x - 1) \o d
         IN  (IF a.m < 0 THEN <<"-">> ELSE <<>>) \o body

\* the global parseFloat: the longest prefix that is a StrDecimalLiteral
parseFloat(str) ==
  LET neg == Len(str) > 0 /\ str[1] = "-"
      r0 == IF Len(str) > 0 /\ str[1] \in {"+", "-"} THEN Slice1(str) ELSE str
      int == DigitRun(r0)
      r1 == From(r0, Len(int) + 1)
      dot == Len(r1) > 0 /\ r1[1] = "."
      frac == IF dot THEN DigitRun(Slice1(r1)) ELSE <<>>
      r2 == IF dot THEN From(r1, Len(frac) + 2) ELSE r1
      esign == Len(r2) > 1 /\ r2[1] \in {"e", "E"} /\ r2[2] \in {"+", "-"}
      edig == IF Len(r2) > 0 /\ r2[1] \in {"e", "E"}
                THEN DigitRun(From(r2, IF esign THEN 3 ELSE 2))
                ELSE <<>>
      ex == IF Len(edig) = 0 THEN 0
            ELSE IF esign /\ r2[2] = "-" THEN 0 - IntOf(edig) ELSE IntOf(edig)
      sig == StripZeros(int \o frac)
  IN  IF StartsWith(r0, InfinityStr)
        THEN IF neg THEN NegInfinity ELSE Infinity
      ELSE IF Len(int) = 0 /\ Len(frac) = 0 THEN NaN
      ELSE IF int \o <<".">> \o frac = PiStr /\ Len(edig) = 0
        THEN IF neg THEN Other ELSE Pi
      ELSE IF int \o <<".">> \o frac = EulerStr /\ Len(edig) = 0
        THEN IF neg THEN Other ELSE Euler
      ELSE IF Len(sig) > 9 \/ Len(edig) > 3 THEN Other
      ELSE Norm(IF neg THEN 0 - IntOf(sig) ELSE IntOf(sig), ex - Len(frac))

(***************************************************************************)
(* String.prototype.replace with the global regular expressions of         *)
(* calculate.                                                              *)
(***************************************************************************)
\* s.replace(/pat/g, rep) for a literal pattern: leftmost matches, no overlap
RECURSIVE ReplaceAll(_, _, _)
ReplaceAll(s, pat, rep) ==
  IF Len(s) = 0 THEN s
  ELSE IF StartsWith(s, pat)
    THEN rep \o ReplaceAll(From(s, Len(pat) + 1), pat, rep)
  ELSE <<s[1]>> \o ReplaceAll(Slice1(s), pat, rep)

\* s.replace(/e(?![0-9])/g, rep): every e that no decimal digit follows
RECURSIVE ReplaceBareE(_, _)
ReplaceBareE(s, rep) ==
  IF Len(s) = 0 THEN s
  ELSE IF s[1] = "e" /\ ~(Len(s) > 1 /\ s[2] \in DigitChars)
    THEN rep \o ReplaceBareE(Slice1(s), rep)
  ELSE <<s[1]>> \o ReplaceBareE(Slice1(s), rep)

\* the constant substitution of calculate
ReplaceConstants(s) == ReplaceBareE(ReplaceAll(s, <<"<pi>">>, PiStr), EulerStr)

DegPrefix == <<"(", "p", "i", "/", "1", "8", "0", ")", "*">>
RadPrefix == <<"(", "1", "8", "0", "/", "p", "i", ")", "*">>

\* the six replacements calculate makes when angleMode is DEG, in its order
DegRewrite(s) ==
  LET s1 == ReplaceAll(s, <<"s", "i", "n", "(">>,
                       <<"s", "i", "n", "(">> \o DegPrefix)
      s2 == ReplaceAll(s1, <<"c", "o", "s", "(">>,
                       <<"c", "o", "s", "(">> \o DegPrefix)
      s3 == ReplaceAll(s2, <<"t", "a", "n", "(">>,
                       <<"t", "a", "n", "(">> \o DegPrefix)
      s4 == ReplaceAll(s3, <<"a", "s", "i", "n", "(">>,
                       RadPrefix \o <<"a", "s", "i", "n", "(">>)
      s5 == ReplaceAll(s4, <<"a", "c", "o", "s", "(">>,
                       RadPrefix \o <<"a", "c", "o", "s", "(">>)
  IN  ReplaceAll(s5, <<"a", "t", "a", "n", "(">>,
                 RadPrefix \o <<"a", "t", "a", "n", "(">>)

\* a rewrite that scales trig calls whatever the angle mode
RewriteIgnoresMode(expr, mode) == DegRewrite(ReplaceConstants(expr))

\* the string calculate hands to evaluate
Rewrite(expr, mode) ==
  IF mode = "DEG" THEN DegRewrite(ReplaceConstants(expr))
  ELSE ReplaceConstants(expr)

(***************************************************************************)
(* evaluate of mathjs.  The model computes it on plain arithmetic: decimal *)
(* literals, + - * /, unary signs and parentheses, parsed with mathjs's    *)
(* precedence.  A result is [st, v, rest, kind]: st is "ok", "throw" (a    *)
(* syntax error) or "unknown" (the model does not compute it), v the       *)
(* value, rest the unread input, kind the node last parsed.                *)
(***************************************************************************)
ArithChars == DigitChars \cup {".", "+", "-", "*", "/", "(", ")"}

Throw == [st |-> "throw", v |-> NaN, rest |-> <<>>, kind |-> "none"]
Unknown == [st |-> "unknown", v |-> NaN, rest |-> <<>>, kind |-> "none"]
Parsed(v, rest, kind) == [st |-> "ok", v |-> v, rest |-> rest, kind |-> kind]

\* whether the next token of s is a NUMBER: a digit, or a dot before a digit
NumberAhead(s) ==
  Len(s) > 0 /\ (s[1] \in DigitChars
                 \/ (s[1] = "." /\ Len(s) > 1 /\ s[2] \in DigitChars))

\* a dot after the integer digits belongs to the number unless * / ^ follows
IsDecimalMark(s) ==
  Len(s) > 0 /\ s[1] = "." /\ ~(Len(s) > 1 /\ s[2] \in {"*", "/", "^"})

\* the NUMBER token at the head of s (NumberAhead(s) holds)
NumberToken(s) ==
  IF s[1] = "." THEN <<".">> \o DigitRun(Slice1(s))
  ELSE LET int == DigitRun(s)
           r == From(s, Len(int) + 1)
       IN  IF IsDecimalMark(r) THEN int \o <<".">> \o DigitRun(Slice1(r))
           ELSE int

\* the multiplicative operator at the head of s: "*", "/", ".*", "./" or none
MulOp(s) ==
  IF Len(s) > 0 /\ s[1] \in {"*", "/"} THEN <<s[1]>>
  ELSE IF Len(s) > 1 /\ s[1] = "." /\ s[2] \in {"*", "/"} THEN <<s[1], s[2]>>
  ELSE <<>>

\* mathjs's recursive-descent parser on arithmetic, evaluating as it goes.
\* rule names the parse function: parseAddSubtract, parseMultiplyDivide,
\* parseImplicitMultiplication, parseUnary, and parseParentheses/parseNumber
\* as "primary"; x is the input left.  The two loop rules continue
\* parseAddSubtract and parseMultiplyDivide from the left operand x, a result.
RECURSIVE Parse(_, _)
Parse(rule, x) ==
  IF rule = "primary" THEN
    IF Len(x) = 0 THEN Throw
    ELSE IF x[1] = "("
      THEN LET r == Parse("addSubtract", Slice1(x))
           IN  IF r.st /= "ok" THEN r
               ELSE IF Len(r.rest) > 0 /\ r.rest[1] = ")"
                 THEN Parsed(r.v, Slice1(r.rest), "paren")
               ELSE Throw
    ELSE IF NumberAhead(x)
      THEN Parsed(parseFloat(NumberToken(x)),
                  From(x, Len(NumberToken(x)) + 1), "const")
    ELSE Throw
  ELSE IF rule = "unary" THEN
    IF Len(x) > 0 /\ x[1] \in {"+", "-"}
      THEN LET r == Parse("unary", Slice1(x))
           IN  IF r.st /= "ok" THEN r
               ELSE Parsed(IF x[1] = "-" THEN Neg(r.v) ELSE r.v, r.rest, "op")
      ELSE Parse("primary", x)
  ELSE IF rule = "implicitMultiplication" THEN
    \* a "(" after a node, or a number after a parenthesis, multiplies
    \* implicitly: the model leaves such input to the opaque evaluator
    LET r == Parse("unary", x)
    IN  IF r.st /= "ok" THEN r
        ELSE IF Len(r.rest) > 0 /\ r.rest[1] = "(" THEN Unknown
        ELSE IF NumberAhead(r.rest) /\ r.kind = "paren" THEN Unknown
        ELSE r
  ELSE IF rule = "multiplyDivideLoop" THEN
    LET op == MulOp(x.rest)
    IN  IF Len(op) = 0 THEN x
        ELSE LET r == Parse("implicitMultiplication",
                            From(x.rest, Len(op) + 1))
             IN  IF r.st /= "ok" THEN r
                 ELSE Parse("multiplyDivideLoop",
                            Parsed(IF op[Len(op)] = "*" THEN Mul(x.v, r.v)
                                   ELSE Div(x.v, r.v), r.rest, "op"))
  ELSE IF rule = "multiplyDivide" THEN
    LET l == Parse("implicitMultiplication", x)
    IN  IF l.st /= "ok" THEN l ELSE Parse("multiplyDivideLoop", l)
  ELSE IF rule = "addSubtractLoop" THEN
    IF Len(x.rest) > 0 /\ x.rest[1] \in {"+", "-"}
      THEN LET r == Parse("multiplyDivide", Slice1(x.rest))
           IN  IF r.st /= "ok" THEN r
               ELSE Parse("addSubtractLoop",
                          Parsed(IF x.rest[1] = "+" THEN Add(x.v, r.v)
                                 ELSE Sub(x.v, r.v), r.rest, "op"))
      ELSE x
  ELSE \* rule = "addSubtract"
    LET l == Parse("multiplyDivide", x)
    IN  IF l.st /= "ok" THEN l ELSE Parse("addSubtractLoop", l)

\* parse and evaluate an arithmetic string: all of it must be read
ParseStart(s) ==
  LET r == Parse("addSubtract", s)
  IN  IF r.st = "ok" /\ Len(r.rest) > 0 THEN Throw ELSE r

\* the parentheses of s are balanced (depth d so far)
RECURSIVE Balanced(_, _)
Balanced(s, d) ==
  IF Len(s) = 0 THEN d = 0
  ELSE IF s[1] = "(" THEN Balanced(Slice1(s), d + 1)
  ELSE IF s[1] = ")" THEN d > 0 /\ Balanced(Slice1(s), d - 1)
  ELSE Balanced(Slice1(s), d)

\* an input mathjs can only reject: open parentheses, or an operator last
Malformed(s) ==
  ~Balanced(s, 0) \/ s[Len(s)] \in {"+", "-", "*", "/", "^", "(", "."}

\* the value the opaque evaluator returns for input the model does not
\* compute, when it returns a number: 1e-7, the value of 10^(-7)
Tiny == [t |-> "num", m |-> 1, e |-> 0 - 7]
OpaqueResults == {Tiny}

\* the natural logarithm of -2 is no real number: mathjs returns the Complex
\* ln 2 + pi i, whose toString() is "0.6931471805599453 + 3.141592653589793i"
LogOfMinus2 == <<"l", "o", "g", "(", "-", "2", ")">>
ComplexStr == <<"0", ".", "6", "9", "3", "1", "4", "7", "1", "8", "0", "5",
                "5", "9", "9", "4", "5", "3", " ", "+", " ">>
              \o PiStr \o <<"i">>

NumberOutcome(v) == [kind |-> "number", val |-> v, str |-> <<>>]
ThrowOutcome == [kind |-> "throw", val |-> NaN, str |-> <<>>]
ObjectOutcome(str) == [kind |-> "object", val |-> NaN, str |-> str]

\* what evaluate(s) can do: return a number, return another object, throw
EvalOutcomes(s) ==
  IF s = LogOfMinus2 THEN {ObjectOutcome(ComplexStr)}
  ELSE IF \A i \in 1..Len(s) : s[i] \in ArithChars
    THEN LET r == ParseStart(s)
         IN  IF r.st = "throw" THEN {ThrowOutcome}
             ELSE IF r.st = "ok"
               THEN IF r.v = Other THEN {} ELSE {NumberOutcome(r.v)}
             ELSE {NumberOutcome(v) : v \in OpaqueResults}
  ELSE IF Malformed(s) THEN {ThrowOutcome}
  ELSE {ThrowOutcome} \cup {NumberOutcome(v) : v \in OpaqueResults}

(***************************************************************************)
(* The state and the inputs.                                               *)
(***************************************************************************)
ErrorStr == <<"E", "r", "r", "o", "r">>

initialState ==
  /\ display = <<"0">>
  /\ expression = <<>>
  /\ memory = Zero
  /\ angleMode = "DEG"
  /\ previousAnswer = Zero
  /\ waitingForOperand = FALSE
  /\ hasError = FALSE

\* the last call of evaluate: its argument, what it did, the number it
\* returned and resultStr
NoCall == [input |-> <<>>, outcome |-> "none", val |-> NaN, str |-> <<>>]
Event(name, arg) == [name |-> name, arg |-> arg]

\* the digit keys 0-9, the operator keys and the constant keys of the grid
AllDigits == {<<c>> : c \in DigitChars}
AllOperators ==
  {<<"+">>, <<"<minus>">>, <<"<times>">>, <<"<divide>">>, <<"(">>, <<")">>}
AllConstants == {<<"<pi>">>, <<"e">>}
\* the function keys of the button grid
AllFunctions ==
  {<<"s", "i", "n">>,
   <<"c", "o", "s">>,
   <<"t", "a", "n">>,
   <<"s", "i", "n", "<sup->", "<sup1>">>,
   <<"c", "o", "s", "<sup->", "<sup1>">>,
   <<"t", "a", "n", "<sup->", "<sup1>">>,
   <<"l", "n">>,
   <<"l", "o", "g">>,
   <<"<root>", "x">>,
   <<"<sup3>", "<root>", "x">>,
   <<"x", "<sup2>">>,
   <<"x", "<sup3>">>,
   <<"x", "^", "y">>,
   <<"e", "<supx>">>,
   <<"1", "0", "<supx>">>,
   <<"1", "/", "x">>,
   <<"n", "!">>,
   <<"%">>,
   <<"y", "<root>", "x">>}
\* the values Math.random() returns in the model: 0 and 0.5
Half == [t |-> "num", m |-> 5, e |-> 0 - 1]
RandomValues == {Zero, Half}

Init ==
  /\ initialState
  /\ lastEvent = Event("init", <<>>)
  /\ evalCall = NoCall

(***************************************************************************)
(* The handlers.                                                           *)
(***************************************************************************)
insertNumber(num) ==
  /\ IF waitingForOperand \/ display = <<"0">> \/ hasError
       THEN /\ display' = num
            /\ expression' = expression \o num
            /\ waitingForOperand' = FALSE
            /\ hasError' = FALSE
       ELSE /\ display' = display \o num
            /\ expression' = expression \o num
            /\ UNCHANGED <<waitingForOperand, hasError>>
  /\ UNCHANGED <<memory, angleMode, previousAnswer>>
  /\ lastEvent' = Event("insertNumber", num)
  /\ evalCall' = NoCall

\* an operator appended as the key writes it
MathOperatorVerbatim(operator) == operator

\* the token insertOperator appends for an arithmetic operator key
MathOperator(operator) ==
  IF operator = <<"<times>">> THEN <<"*">>
  ELSE IF operator = <<"<divide>">> THEN <<"/">>
  ELSE IF operator = <<"<minus>">> THEN <<"-">>
  ELSE operator

insertOperator(operator) ==
  /\ expression' = expression \o
       (IF operator = <<"(">> \/ operator = <<")">> THEN operator
        ELSE MathOperator(operator))
  /\ waitingForOperand' = (operator /= <<"(">> /\ operator /= <<")">>)
  /\ hasError' = FALSE
  /\ UNCHANGED <<display, memory, angleMode, previousAnswer>>
  /\ lastEvent' = Event("insertOperator", operator)
  /\ evalCall' = NoCall

insertDecimal ==
  /\ IF waitingForOperand \/ hasError
       THEN /\ display' = <<"0", ".">>
            /\ expression' = expression \o <<"0", ".">>
            /\ waitingForOperand' = FALSE
            /\ hasError' = FALSE
       ELSE IF ~Includes(display, ".")
         THEN /\ display' = display \o <<".">>
              /\ expression' = expression \o <<".">>
              /\ UNCHANGED <<waitingForOperand, hasError>>
         ELSE UNCHANGED <<display, expression, waitingForOperand, hasError>>
  /\ UNCHANGED <<memory, angleMode, previousAnswer>>
  /\ lastEvent' = Event("insertDecimal", <<>>)
  /\ evalCall' = NoCall

insertConstant(constant) ==
  /\ display' = (IF constant = <<"<pi>">> THEN NumberToString(Pi)
                 ELSE NumberToString(Euler))
  /\ expression' = expression \o constant
  /\ waitingForOperand' = FALSE
  /\ hasError' = FALSE
  /\ UNCHANGED <<memory, angleMode, previousAnswer>>
  /\ lastEvent' = Event("insertConstant", constant)
  /\ evalCall' = NoCall

\* an insertion of the answer that extends display instead of replacing it
insertAnswerAppendsDisplay ==
  /\ display' = display \o NumberToString(previousAnswer)
  /\ expression' = expression \o NumberToString(previousAnswer)
  /\ waitingForOperand' = FALSE
  /\ hasError' = FALSE
  /\ UNCHANGED <<memory, angleMode, previousAnswer>>
  /\ lastEvent' = Event("insertAnswer", <<>>)
  /\ evalCall' = NoCall

insertAnswer ==
  /\ display' = NumberToString(previousAnswer)
  /\ expression' = expression \o NumberToString(previousAnswer)
  /\ waitingForOperand' = FALSE
  /\ hasError' = FALSE
  /\ UNCHANGED <<memory, angleMode, previousAnswer>>
  /\ lastEvent' = Event("insertAnswer", <<>>)
  /\ evalCall' = NoCall

\* the fragment handleFunction's switch appends for a function key; the
\* empty string stands for the default case, which returns prev
FunctionFragment(func) ==
  CASE func \in {<<"s", "i", "n">>, <<"c", "o", "s">>, <<"t", "a", "n">>} ->
         func \o <<"(">>
    [] func = <<"s", "i", "n", "<sup->", "<sup1>">> -> <<"a", "s", "i", "n", "(">>
    [] func = <<"c", "o", "s", "<sup->", "<sup1>">> -> <<"a", "c", "o", "s", "(">>
    [] func = <<"t", "a", "n", "<sup->", "<sup1>">> -> <<"a", "t", "a", "n", "(">>
    [] func = <<"l", "n">> -> <<"l", "o", "g", "(">>
    [] func = <<"l", "o", "g">> -> <<"l", "o", "g", "1", "0", "(">>
    [] func = <<"<root>", "x">> -> <<"s", "q", "r", "t", "(">>
    [] func = <<"<sup3>", "<root>", "x">> -> <<"c", "b", "r", "t", "(">>
    [] func = <<"x", "<sup2>">> -> <<"^", "2">>
    [] func = <<"x", "<sup3>">> -> <<"^", "3">>
    [] func = <<"x", "^", "y">> -> <<"^">>
    [] func = <<"e", "<supx>">> -> <<"e", "x", "p", "(">>
    [] func = <<"1", "0", "<supx>">> -> <<"1", "0", "^", "(">>
    [] func = <<"1", "/", "x">> -> <<"1", "/", "(">>
    [] func = <<"n", "!">> -> <<"!">>
    [] func = <<"%">> -> <<"/", "1", "0", "0">>
    [] func = <<"y", "<root>", "x">> -> <<"n", "t", "h", "R", "o", "o", "t", "(">>
    [] OTHER -> <<>>

handleFunction(func) ==
  /\ IF FunctionFragment(func) = <<>>
       THEN UNCHANGED <<expression, waitingForOperand, hasError>>
       ELSE /\ expression' = expression \o FunctionFragment(func)
            /\ waitingForOperand' = Includes(func, "(")
            /\ hasError' = FALSE
  /\ UNCHANGED <<display, memory, angleMode, previousAnswer>>
  /\ lastEvent' = Event("handleFunction", func)
  /\ evalCall' = NoCall

toggleAngleMode ==
  /\ angleMode' = (IF angleMode = "DEG" THEN "RAD" ELSE "DEG")
  /\ UNCHANGED <<display, expression, memory, previousAnswer,
                 waitingForOperand, hasError>>
  /\ lastEvent' = Event("toggleAngleMode", <<>>)
  /\ evalCall' = NoCall

toggleSign ==
  /\ IF display = <<"0">> \/ hasError
       THEN UNCHANGED display
       ELSE display' = (IF StartsWith(display, <<"-">>) THEN Slice1(display)
                        ELSE <<"-">> \o display)
  /\ UNCHANGED <<expression, memory, angleMode, previousAnswer,
                 waitingForOperand, hasError>>
  /\ lastEvent' = Event("toggleSign", <<>>)
  /\ evalCall' = NoCall

\* a backspace that empties a one-character display instead of showing "0"
backspaceEmptiesDisplay ==
  /\ IF hasError \/ display = <<"0">>
       THEN /\ display' = <<"0">>
            /\ expression' = <<>>
            /\ hasError' = FALSE
       ELSE /\ expression' = SliceLast(expression)
            /\ display' = SliceLast(display)
            /\ UNCHANGED hasError
  /\ UNCHANGED <<memory, angleMode, previousAnswer, waitingForOperand>>
  /\ lastEvent' = Event("backspace", <<>>)
  /\ evalCall' = NoCall

\* a backspace whose reset branch leaves the accumulated expression in place
backspaceKeepsExpression ==
  /\ IF hasError \/ display = <<"0">>
       THEN /\ display' = <<"0">>
            /\ hasError' = FALSE
            /\ UNCHANGED expression
       ELSE /\ expression' = SliceLast(expression)
            /\ display' = (IF Len(display) > 1 THEN SliceLast(display)
                           ELSE <<"0">>)
            /\ UNCHANGED hasError
  /\ UNCHANGED <<memory, angleMode, previousAnswer, waitingForOperand>>
  /\ lastEvent' = Event("backspace", <<>>)
  /\ evalCall' = NoCall

backspace ==
  /\ IF hasError \/ display = <<"0">>
       THEN /\ display' = <<"0">>
            /\ expression' = <<>>
            /\ hasError' = FALSE
       ELSE /\ expression' = SliceLast(expression)
            /\ display' = (IF Len(display) > 1 THEN SliceLast(display)
                           ELSE <<"0">>)
            /\ UNCHANGED hasError
  /\ UNCHANGED <<memory, angleMode, previousAnswer, waitingForOperand>>
  /\ lastEvent' = Event("backspace", <<>>)
  /\ evalCall' = NoCall

\* a clear that keeps the memory register
clearAllKeepsMemory ==
  /\ display' = <<"0">>
  /\ expression' = <<>>
  /\ angleMode' = "DEG"
  /\ previousAnswer' = Zero
  /\ waitingForOperand' = FALSE
  /\ hasError' = FALSE
  /\ UNCHANGED memory
  /\ lastEvent' = Event("clearAll", <<>>)
  /\ evalCall' = NoCall

\* setState(initialState)
clearAll ==
  /\ display' = <<"0">>
  /\ expression' = <<>>
  /\ memory' = Zero
  /\ angleMode' = "DEG"
  /\ previousAnswer' = Zero
  /\ waitingForOperand' = FALSE
  /\ hasError' = FALSE
  /\ lastEvent' = Event("clearAll", <<>>)
  /\ evalCall' = NoCall

generateRandom(randomNum) ==
  /\ display' = NumberToString(randomNum)
  /\ expression' = expression \o NumberToString(randomNum)
  /\ waitingForOperand' = FALSE
  /\ hasError' = FALSE
  /\ UNCHANGED <<memory, angleMode, previousAnswer>>
  /\ lastEvent' = Event("generateRandom", <<>>)
  /\ evalCall' = NoCall

\* prev.display || '0': the empty string is falsy
DisplayOrZero == IF display = <<>> THEN <<"0">> ELSE display

memoryAdd ==
  /\ memory' = Add(memory, parseFloat(DisplayOrZero))
  /\ UNCHANGED <<display, expression, angleMode, previousAnswer,
                 waitingForOperand, hasError>>
  /\ lastEvent' = Event("memoryAdd", <<>>)
  /\ evalCall' = NoCall

memorySubtract ==
  /\ memory' = Sub(memory, parseFloat(DisplayOrZero))
  /\ UNCHANGED <<display, expression, angleMode, previousAnswer,
                 waitingForOperand, hasError>>
  /\ lastEvent' = Event("memorySubtract", <<>>)
  /\ evalCall' = NoCall

\* a recall that overwrites expression instead of appending to it
memoryRecallReplaces ==
  /\ display' = NumberToString(memory)
  /\ expression' = NumberToString(memory)
  /\ waitingForOperand' = FALSE
  /\ hasError' = FALSE
  /\ UNCHANGED <<memory, angleMode, previousAnswer>>
  /\ lastEvent' = Event("memoryRecall", <<>>)
  /\ evalCall' = NoCall

memoryRecall ==
  /\ display' = NumberToString(memory)
  /\ expression' = expression \o NumberToString(memory)
  /\ waitingForOperand' = FALSE
  /\ hasError' = FALSE
  /\ UNCHANGED <<memory, angleMode, previousAnswer>>
  /\ lastEvent' = Event("memoryRecall", <<>>)
  /\ evalCall' = NoCall

memoryClear ==
  /\ memory' = Zero
  /\ UNCHANGED <<display, expression, angleMode, previousAnswer,
                 waitingForOperand, hasError>>
  /\ lastEvent' = Event("memoryClear", <<>>)
  /\ evalCall' = NoCall

\* |result| > 1e15 || (|result| < 1e-6 && result !== 0), for a number
OutOfPlainRange(r) ==
  \/ r.t \in {"inf", "ninf"}
  \/ /\ r.t = "num"
     /\ r.m /= 0
     /\ \/ Len(Digits(Abs(r.m))) + r.e > 16
        \/ Len(Digits(Abs(r.m))) + r.e = 16 /\ Abs(r.m) /= 1
        \/ Len(Digits(Abs(r.m))) + r.e < 0 - 5

\* resultStr of calculate
ResultStr(o) ==
  IF o.kind = "number"
    THEN IF OutOfPlainRange(o.val) THEN ToExponential6(o.val)
         ELSE NumberToString(o.val)
    ELSE o.str

\* the text the renderer shows for display
formatDisplay(value) ==
  IF value = ErrorStr THEN value
  ELSE LET num == parseFloat(value)
       IN  IF num.t = "nan" THEN value
           ELSE IF OutOfPlainRange(num) THEN ToExponential6(num)
           ELSE IF Includes(value, ".") /\ Len(value) > 12
             THEN ToPrecision10(num)
           ELSE value

\* a guard that never takes the early return
ExpressionNeverEmpty == FALSE

\* !prev.expression
ExpressionIsEmpty == expression = <<>>

\* a return that starts the next expression with the result
calculateReturnCarriesResult(o) ==
  /\ display' = ResultStr(o)
  /\ expression' = ResultStr(o)
  /\ previousAnswer' = (IF o.kind = "number" THEN o.val ELSE Zero)
  /\ waitingForOperand' = TRUE
  /\ hasError' = FALSE
  /\ UNCHANGED <<memory, angleMode>>

\* a return that leaves the answer register as it was
calculateReturnKeepsAnswer(o) ==
  /\ display' = ResultStr(o)
  /\ expression' = <<>>
  /\ waitingForOperand' = TRUE
  /\ hasError' = FALSE
  /\ UNCHANGED <<memory, angleMode, previousAnswer>>

\* the state calculate returns when evaluate returned result o
calculateReturn(o) ==
  /\ display' = ResultStr(o)
  /\ expression' = <<>>
  /\ previousAnswer' = (IF o.kind = "number" THEN o.val ELSE Zero)
  /\ waitingForOperand' = TRUE
  /\ hasError' = FALSE
  /\ UNCHANGED <<memory, angleMode>>

\* a catch block that leaves the failed expression in place
calculateCatchKeepsExpression ==
  /\ display' = ErrorStr
  /\ hasError' = TRUE
  /\ UNCHANGED <<expression, memory, angleMode, previousAnswer,
                 waitingForOperand>>

\* a catch block that also resets the answer register
calculateCatchResetsAnswer ==
  /\ display' = ErrorStr
  /\ expression' = <<>>
  /\ hasError' = TRUE
  /\ previousAnswer' = Zero
  /\ UNCHANGED <<memory, angleMode, waitingForOperand>>

\* the state calculate returns from its catch block
calculateCatch ==
  /\ display' = ErrorStr
  /\ expression' = <<>>
  /\ hasError' = TRUE
  /\ UNCHANGED <<memory, angleMode, previousAnswer, waitingForOperand>>

calculate ==
  /\ lastEvent' = Event("calculate", <<>>)
  /\ IF ExpressionIsEmpty
       THEN /\ UNCHANGED state
            /\ evalCall' = NoCall
       ELSE \E o \in EvalOutcomes(Rewrite(expression, angleMode)) :
              /\ evalCall' = [input |-> Rewrite(expression, angleMode),
                              outcome |-> o.kind, val |-> o.val,
                              str |-> ResultStr(o)]
              /\ IF o.kind = "throw" THEN calculateCatch
                   ELSE calculateReturn(o)

(***************************************************************************)
(* The bounded next-state relation.  An event is one call of a handler;   *)
(* dg, op, cn and fn are the digit, operator, constant and function keys   *)
(* pressed, and len bounds the length of expression.  Memory and the       *)
(* answer register are kept to small values.  memoryClear is a handler of *)
(* the component that no button and no key dispatches; it is an event of   *)
(* the model all the same.                                                 *)
(***************************************************************************)
InRange(a, max) ==
  a.t \in {"num", "nan"} /\ (a.t = "num" => a.e = 0 /\ Abs(a.m) <= max)

AnswerInRange(a) ==
  a \in OpaqueResults \cup {Pi, Euler, Infinity} \/ InRange(a, MaxAnswer)

\* an append leaves expression within len characters
Fits(len) == Len(expression') <= len
\* an edit of display (a typed digit or decimal point, a sign toggle, a
\* backspace) leaves it within MaxDisplay characters; a handler that replaces
\* display is not bounded
Edited == Len(display') <= MaxDisplay

Step(dg, op, cn, fn, len) ==
  \/ \E num \in dg : insertNumber(num) /\ Fits(len) /\ Edited
  \/ \E operator \in op : insertOperator(operator) /\ Fits(len)
  \/ insertDecimal /\ Fits(len) /\ Edited
  \/ \E constant \in cn : insertConstant(constant) /\ Fits(len)
  \/ insertAnswer /\ Fits(len)
  \/ \E func \in fn : handleFunction(func) /\ Fits(len)
  \/ toggleAngleMode
  \/ toggleSign /\ Edited
  \/ backspace /\ Edited
  \/ clearAll
  \/ \E randomNum \in RandomValues : generateRandom(randomNum) /\ Fits(len)
  \/ memoryAdd /\ InRange(memory', MaxMem)
  \/ memorySubtract /\ InRange(memory', MaxMem)
  \/ memoryRecall /\ Fits(len)
  \/ memoryClear
  \/ calculate /\ AnswerInRange(previousAnswer')

\* the keys pressed in Spec
KeyDigits == {<<"0">>, <<"1">>}
KeyOperators == AllOperators
KeyConstants == {<<"<pi>">>}
KeyFunctions == {<<"s", "i", "n">>, <<"x", "^", "y">>}

Next == Step(KeyDigits, KeyOperators, KeyConstants, KeyFunctions, MaxExpr)

Spec == Init /\ [][Next]_vars

\* digit keys only, from initialState
NextDigits ==
  \E num \in AllDigits : insertNumber(num) /\ Fits(MaxExpr + 2) /\ Edited

SpecDigits == Init /\ [][NextDigits]_vars

\* the keys ln, -, 2, ) and =, with room for the text log(-2)
NextLog ==
  \/ handleFunction(<<"l", "n">>) /\ Fits(Len(LogOfMinus2))
  \/ \E operator \in {<<"<minus>">>, <<")">>} :
       insertOperator(operator) /\ Fits(Len(LogOfMinus2))
  \/ insertNumber(<<"2">>) /\ Fits(Len(LogOfMinus2)) /\ Edited
  \/ calculate /\ AnswerInRange(previousAnswer')

SpecLog == Init /\ [][NextLog]_vars

\* digit keys and backspace
NextDigitsBackspace ==
  \/ \E num \in AllDigits : insertNumber(num) /\ Fits(MaxExpr + 2) /\ Edited
  \/ backspace /\ Edited

SpecDigitsBackspace == Init /\ [][NextDigitsBackspace]_vars

\* operand entry (digits, decimal point, pi, random value, sign), then
\* memoryAdd on an empty memory and memoryRecall right after it
NextMemory ==
  \/ \E num \in {<<"1">>, <<"5">>} :
       insertNumber(num) /\ Fits(MaxExpr + 2) /\ Edited
  \/ insertDecimal /\ Fits(MaxExpr + 2) /\ Edited
  \/ insertConstant(<<"<pi>">>) /\ Fits(MaxExpr + 2)
  \/ \E randomNum \in RandomValues :
       generateRandom(randomNum) /\ Fits(MaxExpr + 2)
  \/ toggleSign /\ Edited
  \/ memoryAdd /\ memory = Zero /\ memory' /= Other
  \/ memoryRecall /\ lastEvent.name = "memoryAdd"
       /\ Len(expression) <= MaxExpr + 2
  \/ clearAll

SpecMemory == Init /\ [][NextMemory]_vars

\* every function key, and the + key, with room for the longest fragment
NextFunctions ==
  \/ \E func \in AllFunctions : handleFunction(func) /\ Fits(MaxExpr + 7)
  \/ insertOperator(<<"+">>) /\ Fits(MaxExpr + 7)

SpecFunctions == Init /\ [][NextFunctions]_vars

\* the six trigonometric keys, the keys 1, ) and pi, the angle mode key and =,
\* with room for a nested call such as asin(sin(
TrigKeys ==
  {<<"s", "i", "n">>, <<"c", "o", "s">>, <<"t", "a", "n">>,
   <<"s", "i", "n", "<sup->", "<sup1>">>,
   <<"c", "o", "s", "<sup->", "<sup1>">>,
   <<"t", "a", "n", "<sup->", "<sup1>">>}

NextTrig ==
  \/ \E func \in TrigKeys : handleFunction(func) /\ Fits(MaxExpr + 8)
  \/ insertNumber(<<"1">>) /\ Fits(MaxExpr + 8) /\ Edited
  \/ insertOperator(<<")">>) /\ Fits(MaxExpr + 8)
  \/ insertConstant(<<"<pi>">>) /\ Fits(MaxExpr + 4)
  \/ toggleAngleMode
  \/ calculate /\ AnswerInRange(previousAnswer')

SpecTrig == Init /\ [][NextTrig]_vars

\* the constant keys, the keys e^x and 10^x, the keys -, 7 and ), Ans and =,
\* with room for the text 10^(-7); constants and answers go into short
\* expressions only
NextConstants ==
  \/ \E constant \in AllConstants :
       insertConstant(constant) /\ Fits(MaxExpr + 1)
  \/ \E func \in {<<"e", "<supx>">>, <<"1", "0", "<supx>">>} :
       handleFunction(func) /\ Fits(MaxExpr + 3)
  \/ insertNumber(<<"7">>) /\ Fits(MaxExpr + 6) /\ Edited
  \/ \E operator \in {<<"<minus>">>, <<")">>} :
       insertOperator(operator) /\ Fits(MaxExpr + 6)
  \/ insertAnswer /\ Fits(MaxExpr + 4)
  \/ calculate /\ AnswerInRange(previousAnswer')

SpecConstants == Init /\ [][NextConstants]_vars

\* the operator and parenthesis keys, the key 1 and =
NextOperators ==
  \/ \E operator \in AllOperators :
       insertOperator(operator) /\ Fits(MaxExpr + 2)
  \/ insertNumber(<<"1">>) /\ Fits(MaxExpr + 2) /\ Edited
  \/ calculate /\ AnswerInRange(previousAnswer')

SpecOperators == Init /\ [][NextOperators]_vars

\* operand entry with the keys 0, 1, the decimal point, + and the sign key,
\* =, memoryAdd, and backspace
NextBackspace ==
  \/ \E num \in KeyDigits : insertNumber(num) /\ Fits(MaxExpr + 2) /\ Edited
  \/ insertOperator(<<"+">>) /\ Fits(MaxExpr + 2)
  \/ insertDecimal /\ Fits(MaxExpr + 2) /\ Edited
  \/ toggleSign /\ Edited
  \/ calculate /\ AnswerInRange(previousAnswer')
  \/ memoryAdd /\ InRange(memory', MaxMem)
  \/ backspace /\ Edited

SpecBackspace == Init /\ [][NextBackspace]_vars

(***************************************************************************)
(* The invariants of the state.                                            *)
(***************************************************************************)
\* C1: in every reachable state, hasError = true implies that expression is
\* the empty string.
ErrorHasNoExpression == hasError => expression = <<>>

\* an error state: the last event was a calculate whose evaluate threw
ErrorStateReached ==
  /\ hasError
  /\ expression = <<>>
  /\ lastEvent.name = "calculate"
  /\ evalCall.outcome = "throw"

\* C2: after every event, waitingForOperand and hasError are never both
\* true.
FlagsExclusive == ~(waitingForOperand /\ hasError)

\* [-] digits [. digits] [e [+-] digits], with a digit before the exponent
IsNumericLiteral(s) ==
  LET body == IF Len(s) > 0 /\ s[1] = "-" THEN Slice1(s) ELSE s
      int == DigitRun(body)
      r1 == From(body, Len(int) + 1)
      dot == Len(r1) > 0 /\ r1[1] = "."
      frac == IF dot THEN DigitRun(Slice1(r1)) ELSE <<>>
      r2 == IF dot THEN From(r1, Len(frac) + 2) ELSE r1
      r3 == IF Len(r2) > 1 /\ r2[2] \in {"+", "-"} THEN From(r2, 3)
            ELSE Slice1(r2)
  IN  /\ Len(int) + Len(frac) > 0
      /\ \/ r2 = <<>>
         \/ r2[1] = "e" /\ r3 /= <<>> /\ DigitRun(r3) = r3

\* C3: in every reachable state display is a numeric literal, "Error" or
\* "0"; it is never a bare "-" or another non-numeric string.
DisplayIsLiteral == IsNumericLiteral(display) \/ display = ErrorStr

\* C4: in every reachable state display contains at most one decimal point,
\* and insertDecimal on a display that has one, with waitingForOperand and
\* hasError false, changes nothing.  The first half is the invariant.
OneDecimalPoint == Count(display, ".") <= 1

(***************************************************************************)
(* calculate.                                                              *)
(***************************************************************************)
\* C5: when calculate runs on a non-empty expression and evaluate throws,
\* the new state has display "Error", expression "" and hasError true, and
\* previousAnswer, memory and angleMode keep their values.
FailedCalculate ==
  [][(lastEvent'.name = "calculate" /\ evalCall'.outcome = "throw")
       => /\ display' = ErrorStr
          /\ expression' = <<>>
          /\ hasError'
          /\ previousAnswer' = previousAnswer
          /\ memory' = memory
          /\ angleMode' = angleMode]_vars

\* a failed calculate in a state whose registers and mode are not the
\* initial ones
FailedCalculateReached ==
  /\ lastEvent.name = "calculate"
  /\ evalCall.outcome = "throw"
  /\ display = ErrorStr
  /\ previousAnswer /= Zero
  /\ memory /= Zero
  /\ angleMode = "RAD"

\* the string calculate stores for a number r: exponent form with six
\* fraction digits if |r| > 1e15 or 0 < |r| < 1e-6, else the plain string
StoredString(r) ==
  IF OutOfPlainRange(r) THEN ToExponential6(r) ELSE NumberToString(r)

EmptyCalculate ==
  [][(lastEvent'.name = "calculate" /\ expression = <<>>)
       => UNCHANGED state]_vars

\* calculate has run on an empty expression, in a state that is not the
\* initial one
EmptyCalculateReached ==
  /\ lastEvent.name = "calculate"
  /\ evalCall = NoCall
  /\ expression = <<>>
  /\ display /= <<"0">>
  /\ waitingForOperand

(***************************************************************************)
(* Recovery from the error state.                                          *)
(***************************************************************************)
\* C8: from a state with hasError = true, one further event of any kind
\* other than clearAll leaves hasError = false.
ErrorClearedByNextEvent ==
  [][(hasError /\ lastEvent'.name /= "clearAll") => ~hasError']_vars

(***************************************************************************)
(* Digit entry.                                                            *)
(***************************************************************************)
\* C9: after every sequence of insertNumber events from initialState,
\* display equals expression and both consist only of digits.
DigitsDisplayIsExpression ==
  lastEvent.name = "insertNumber"
    => /\ display = expression
       /\ \A i \in 1..Len(display) : display[i] \in DigitChars

(***************************************************************************)
(* Memory.                                                                 *)
(***************************************************************************)
\* C10: memoryAdd and memorySubtract on a display that parses to no number
\* treat the operand as 0: memory keeps its value, and is never NaN.
MemoryIgnoresUnparseable ==
  [][(lastEvent'.name \in {"memoryAdd", "memorySubtract"}
        /\ parseFloat(display) = NaN)
       => memory' = memory /\ memory' /= NaN]_vars

\* C11: from a state with memory = 0 whose display is a numeric literal
\* denoting v, memoryAdd yields memory = v and leaves the rest alone, and
\* memoryRecall right after it keeps memory, yields a display that denotes
\* exactly v, appends that same string to expression and clears
\* waitingForOperand and hasError.
AddThenRecall ==
  [][/\ (lastEvent'.name = "memoryAdd" /\ memory = Zero
           /\ IsNumericLiteral(display))
          => /\ memory' = parseFloat(display)
             /\ memory'.t /= "nan"
             /\ UNCHANGED <<display, expression, angleMode, previousAnswer,
                            waitingForOperand, hasError>>
     /\ (lastEvent.name = "memoryAdd" /\ lastEvent'.name = "memoryRecall"
           /\ IsNumericLiteral(display) /\ memory = parseFloat(display))
          => /\ memory' = memory
             /\ parseFloat(display') = memory
             /\ IsNumericLiteral(display')
             /\ expression' = expression \o display'
             /\ ~waitingForOperand'
             /\ ~hasError']_vars

\* a fraction has been added to memory and recalled, after an operand that
\* was not in the string form of its value
AddThenRecallReached ==
  /\ lastEvent.name = "memoryRecall"
  /\ memory.t = "num"
  /\ memory.e < 0
  /\ display = NumberToString(memory)
  /\ Len(expression) > Len(display)
  /\ SubSeq(expression, 1, Len(expression) - Len(display)) /= display

(***************************************************************************)
(* Round trips and resets.                                                 *)
(***************************************************************************)
\* the state one digit key d yields from initialState
AfterOneDigit ==
  /\ lastEvent.name = "insertNumber"
  /\ lastEvent.arg \in AllDigits
  /\ display = lastEvent.arg
  /\ expression = lastEvent.arg
  /\ memory = Zero
  /\ angleMode = "DEG"
  /\ previousAnswer = Zero
  /\ ~waitingForOperand
  /\ ~hasError

\* C12: for every digit d, insertNumber(d) from initialState followed by
\* backspace yields display "0" and expression "", with memory, angleMode,
\* previousAnswer and both flags as in initialState.
DigitThenBackspace ==
  [][/\ (initialState /\ lastEvent'.name = "insertNumber") => AfterOneDigit'
     /\ (AfterOneDigit /\ lastEvent'.name = "backspace") => initialState']_vars

\* the digit 7 has been typed from initialState, and a backspace from here
\* leads back to initialState
DigitThenBackspaceReached ==
  /\ AfterOneDigit
  /\ lastEvent.arg = <<"7">>
  /\ ENABLED (backspace /\ display' = <<"0">> /\ expression' = <<>>)

\* C13: clearAll applied to any reachable state yields exactly initialState:
\* display "0", expression "", memory 0, angleMode DEG, previousAnswer 0,
\* waitingForOperand false, hasError false.
ClearAllResets == [][lastEvent'.name = "clearAll" => initialState']_vars

\* a state differing from initialState in memory, angle mode and error flag,
\* from which clearAll yields initialState
ClearAllReached ==
  /\ memory /= Zero
  /\ angleMode = "RAD"
  /\ hasError
  /\ ENABLED (clearAll /\ display' = <<"0">> /\ expression' = <<>> /\ memory' = Zero
                /\ angleMode' = "DEG" /\ ~hasError')

(***************************************************************************)
(* Function keys.                                                          *)
(***************************************************************************)
EndsInParen(s) == s /= <<>> /\ s[Len(s)] = "("

\* C14: for every function key of the fragment table, handleFunction appends
\* the table's fragment to expression and sets waitingForOperand to true if
\* and only if that fragment ends in an open parenthesis (true for sin, cos,
\* tan, their inverses, ln, log, sqrt, cbrt, exp, 10^(, 1/( and nthRoot(;
\* false for x2, x3, n!, % and x^y).
FunctionSetsWaiting ==
  [][lastEvent'.name = "handleFunction" =>
       /\ expression' = expression \o FunctionFragment(lastEvent'.arg)
       /\ waitingForOperand' = EndsInParen(FunctionFragment(lastEvent'.arg))]_vars

(***************************************************************************)
(* The string handed to the evaluator.                                     *)
(***************************************************************************)
\* the number of positions of s at which pat occurs
Occurrences(s, pat) ==
  Cardinality({i \in 1..Len(s) : StartsWith(From(s, i), pat)})

\* the number of occurrences of pat in s that no letter a precedes: the
\* direct calls of sin(, cos( or tan(, as opposed to asin(, acos(, atan(
DirectCalls(s, pat) ==
  Cardinality({i \in 1..Len(s) :
                 /\ StartsWith(From(s, i), pat)
                 /\ (i > 1 => s[i - 1] /= "a")})

DirectNames == {<<"s", "i", "n", "(">>, <<"c", "o", "s", "(">>,
                <<"t", "a", "n", "(">>}
InverseNames == {<<"a", "s", "i", "n", "(">>, <<"a", "c", "o", "s", "(">>,
                 <<"a", "t", "a", "n", "(">>}

\* a calculate that reaches the evaluator, taken in angle mode mode
Evaluates(mode) ==
  lastEvent'.name = "calculate" /\ expression /= <<>> /\ angleMode = mode

\* C15: in DEG mode every inverse trig call is rewritten so that only its
\* result is multiplied by 180/pi: each asin(, acos(, atan( of the expression
\* becomes (180/pi)*asin(, (180/pi)*acos(, (180/pi)*atan( in the string
\* handed to the evaluator, and its argument is not multiplied by pi/180.
InverseTrigResultOnly ==
  [][Evaluates("DEG") =>
       \A fn \in InverseNames :
         /\ Occurrences(evalCall'.input, RadPrefix \o fn)
              = Occurrences(expression, fn)
         /\ Occurrences(evalCall'.input, fn \o DegPrefix) = 0]_vars

\* String.prototype.endsWith
EndsWith(s, p) == Len(s) >= Len(p) /\ SubSeq(s, Len(s) - Len(p) + 1, Len(s)) = p

ExpName == <<"e", "x", "p", "(">>

\* C16: the constant substitution of calculate replaces only the symbolic
\* constants: no pi is left in the string handed to the evaluator and each
\* pi has become its literal; the e of every exp( is left as it is; and a
\* number just inserted by insertAnswer, memoryRecall or generateRandom
\* (display holds its text, the last thing appended to expression) reaches
\* the evaluator unchanged, exponent mark included.
OnlyConstantsSubstituted ==
  [][(lastEvent'.name = "calculate" /\ expression /= <<>>) =>
       /\ Occurrences(evalCall'.input, <<"<pi>">>) = 0
       /\ Occurrences(evalCall'.input, PiStr)
            >= Occurrences(expression, <<"<pi>">>)
       /\ Occurrences(evalCall'.input, ExpName)
            = Occurrences(expression, ExpName)
       /\ lastEvent.name \in {"insertAnswer", "memoryRecall", "generateRandom"}
            => EndsWith(evalCall'.input, display)]_vars

\* s without the scaling factors the DEG rewrite inserts
Unscaled(s) == ReplaceAll(ReplaceAll(s, DegPrefix, <<>>), RadPrefix, <<>>)

\* C17: the angle mode affects evaluation only through the trig rewrite.
\* In RAD mode the string handed to the evaluator is the expression after
\* constant substitution.  In DEG mode every direct call sin(, cos(, tan( of
\* the expression is followed by (pi/180)* in that string, each occurrence
\* on its own, and apart from the inserted factors the string is the
\* expression after constant substitution.
AngleModeRewrite ==
  [][/\ Evaluates("RAD") => evalCall'.input = ReplaceConstants(expression)
     /\ Evaluates("DEG") =>
          /\ \A fn \in DirectNames :
               /\ DirectCalls(evalCall'.input, fn \o DegPrefix)
                    = DirectCalls(expression, fn)
               /\ DirectCalls(evalCall'.input, fn) = DirectCalls(expression, fn)
          /\ Unscaled(evalCall'.input) = ReplaceConstants(expression)]_vars

\* a DEG evaluation of sin(cos(1: both direct calls are scaled
AngleModeRewriteReached ==
  /\ lastEvent.name = "calculate"
  /\ angleMode = "DEG"
  /\ evalCall.input = <<"s", "i", "n", "(">> \o DegPrefix
                       \o <<"c", "o", "s", "(">> \o DegPrefix \o <<"1">>

(***************************************************************************)
(* Operators and parentheses.                                              *)
(***************************************************************************)
ArithmeticKeys == {<<"+">>, <<"<minus>">>, <<"<times>">>, <<"<divide>">>}

\* the token the evaluator reads for an arithmetic key
CanonicalToken(key) ==
  CASE key = <<"+">> -> <<"+">>
    [] key = <<"<minus>">> -> <<"-">>
    [] key = <<"<times>">> -> <<"*">>
    [] key = <<"<divide>">> -> <<"/">>

\* C18: insertOperator with one of the four arithmetic operators appends the
\* canonical token +, -, *, / to expression, sets waitingForOperand, clears
\* hasError and leaves display unchanged, whatever the preceding token is.
ArithmeticOperatorAppended ==
  [][(lastEvent'.name = "insertOperator" /\ lastEvent'.arg \in ArithmeticKeys) =>
       /\ expression' = expression \o CanonicalToken(lastEvent'.arg)
       /\ waitingForOperand'
       /\ ~hasError'
       /\ display' = display
       /\ UNCHANGED <<memory, angleMode, previousAnswer>>]_vars

\* two operators in a row, both appended
ArithmeticOperatorReached ==
  /\ lastEvent = Event("insertOperator", <<"<divide>">>)
  /\ expression = <<"1", "*", "/">>
  /\ waitingForOperand
  /\ ~hasError

\* C19: insertOperator with a parenthesis appends that character to
\* expression and leaves waitingForOperand as it was (after an operator the
\* flag stays true).
ParenthesisKeepsWaiting ==
  [][(lastEvent'.name = "insertOperator"
        /\ lastEvent'.arg \in {<<"(">>, <<")">>}) =>
       /\ expression' = expression \o lastEvent'.arg
       /\ waitingForOperand' = waitingForOperand]_vars

(***************************************************************************)
(* Inserted values.                                                        *)
(***************************************************************************)
\* the flags are cleared and the registers are left alone
OperandEntered ==
  /\ ~waitingForOperand'
  /\ ~hasError'
  /\ UNCHANGED <<memory, angleMode, previousAnswer>>

toggleSignDisplay(d, err) ==
  IF d = <<"0">> \/ err THEN d
  ELSE IF StartsWith(d, <<"-">>) THEN Slice1(d)
  ELSE <<"-">> \o d

\* C21: toggleSign changes nothing when display is "0" or hasError is true;
\* otherwise it adds or removes a single leading "-" on display and leaves
\* expression and every other field unchanged; a second toggleSign right
\* after it restores the state exactly.
ToggleSignRestores ==
  [][lastEvent'.name = "toggleSign" =>
       /\ (display = <<"0">> \/ hasError) => UNCHANGED state
       /\ ~(display = <<"0">> \/ hasError) =>
            IF StartsWith(display, <<"-">>) THEN display = <<"-">> \o display'
            ELSE display' = <<"-">> \o display
       /\ UNCHANGED <<expression, memory, angleMode, previousAnswer,
                      waitingForOperand, hasError>>
       /\ display' = toggleSignDisplay(display, hasError)
       /\ toggleSignDisplay(display', hasError') = display]_vars

\* C22: backspace, when hasError is true or display is "0", sets display to
\* "0", expression to "" and hasError to false, whatever the length of
\* expression; otherwise it removes the last character of expression and the
\* last character of display, display becoming "0" if it had length 1.  In
\* both cases memory, angleMode, previousAnswer and waitingForOperand are
\* unchanged.
BackspaceEffect ==
  [][lastEvent'.name = "backspace" =>
       /\ (hasError \/ display = <<"0">>) =>
            /\ display' = <<"0">>
            /\ expression' = <<>>
            /\ ~hasError'
       /\ ~(hasError \/ display = <<"0">>) =>
            /\ expression' = SliceLast(expression)
            /\ Len(display) > 1 => display' = SliceLast(display)
            /\ Len(display) = 1 => display' = <<"0">>
            /\ UNCHANGED hasError
       /\ UNCHANGED <<memory, angleMode, previousAnswer,
                      waitingForOperand>>]_vars

\* a backspace has taken the last character off the expression 1+1 and
\* off the one-character display 1, with 1 in memory
BackspaceEffectReached ==
  /\ lastEvent.name = "backspace"
  /\ expression = <<"1", "+">>
  /\ display = <<"0">>
  /\ memory = Num(1, 0)

(***************************************************************************)
(* The answer register.                                                    *)
(***************************************************************************)
\* the step is a calculate whose evaluate returned a value
Succeeds == lastEvent'.name = "calculate" /\ evalCall'.outcome \in {"number", "object"}

\* C23: previousAnswer is changed only by a successful calculate, which sets
\* it to the result, and by clearAll, which resets it to 0; every other
\* event (a failed calculate, a calculate on the empty expression,
\* insertAnswer, backspace, the memory operations and the rest) leaves it
\* unchanged.
AnswerSetOnlyByResult ==
  [][/\ Succeeds => evalCall'.outcome = "number" /\ previousAnswer' = evalCall'.val
     /\ lastEvent'.name = "clearAll" => previousAnswer' = Zero
     /\ (~Succeeds /\ lastEvent'.name /= "clearAll") =>
          UNCHANGED previousAnswer]_vars

\* the last event was a calculate whose evaluate returned a value
AfterSuccess ==
  lastEvent.name = "calculate" /\ evalCall.outcome \in {"number", "object"}

\* what an event other than insertAnswer appends to expression: its own
\* text, which does not depend on display or on previousAnswer
OwnText(event) ==
  CASE event.name \in {"insertNumber", "insertConstant"} -> {event.arg}
    [] event.name = "insertOperator" ->
         {IF event.arg \in ArithmeticKeys THEN CanonicalToken(event.arg)
          ELSE event.arg}
    [] event.name = "insertDecimal" -> {<<"0", ".">>}
    [] event.name = "handleFunction" -> {FunctionFragment(event.arg)}
    [] event.name = "memoryRecall" -> {NumberToString(memory)}
    [] event.name = "generateRandom" ->
         {NumberToString(randomNum) : randomNum \in RandomValues}
    [] OTHER -> {<<>>}

====
